---- MODULE Spec2Model ----
(***************************************************************************)
(* Model of the voice-enabled terminal relay of claude_voice.py:           *)
(*   ClaudeVoiceTUI.run / pty.spawn copy loop, ClaudeVoiceTUI.stdin_read,  *)
(*   ClaudeVoiceTUI._handle_voice_input_sync (with wait_for_stop),          *)
(*   VoiceInputHandler.get_voice_input / record_audio / transcribe_audio /  *)
(*   cleanup_existing_recording, and ClaudeVoiceTUI._signal_handler.        *)
(* Bytes and characters are integers (code points); byte strings and texts  *)
(* are sequences of them.                                                   *)
(***************************************************************************)
EXTENDS Integers, Sequences, FiniteSets, TLC

\* ---------------------------------------------------------------- bounds
MaxChunkLen == 3
MaxTextLen == 2
MaxSpeakLen == 51

\* ------------------------------------------------------ program constants
TriggerByte == 0
StopKey == 13
MinFileSize == 1000
SpokenPrefixLen == 50

\* ordinary input bytes used by the model besides the two special ones
Byte == {TriggerByte, StopKey, 97}
\* characters a transcription response is made of: space, "x", e-acute
Char == {32, 120, 233}
\* sizes a recording file can have (below / at the minimum-size threshold)
FileSizes == {MinFileSize - 1, MinFileSize}

\* Python's None for the Optional results, and "stdin_read has not returned"
None == <<-1>>
NoRet == <<-2>>
\* a path that does not exist on the filesystem
Absent == -1

RECURSIVE SeqsUpTo(_, _)
SeqsUpTo(S, n) ==
    IF n = 0 THEN {<<>>}
    ELSE LET shorter == SeqsUpTo(S, n - 1)
         IN shorter \cup {Append(s, x) : s \in {t \in shorter : Len(t) = n - 1}, x \in S}

\* what os.read(fd, 1024) can return: a chunk, or b'' at end of input
Chunks == SeqsUpTo(Byte, MaxChunkLen)
\* what response.text can be
Texts == SeqsUpTo(Char, MaxTextLen)

\* the trigger test looking for the wrong byte
HasTriggerStopKey(d) == \E i \in DOMAIN d : d[i] = StopKey

\* b'\x00' in data
HasTrigger(d) == \E i \in DOMAIN d : d[i] = TriggerByte

\* data.replace(b'\x00', b'')
RECURSIVE Replace(_)
Replace(d) ==
    IF d = <<>> THEN <<>>
    ELSE IF Head(d) = TriggerByte THEN Replace(Tail(d))
    ELSE <<Head(d)>> \o Replace(Tail(d))

\* str.strip(): whitespace removed at both ends
RECURSIVE LStrip(_)
LStrip(t) == IF t # <<>> /\ Head(t) = 32 THEN LStrip(Tail(t)) ELSE t

RECURSIVE RStrip(_)
RStrip(t) ==
    IF t # <<>> /\ t[Len(t)] = 32 THEN RStrip(SubSeq(t, 1, Len(t) - 1)) ELSE t

Strip(t) == RStrip(LStrip(t))

\* str.encode('utf-8') for code points below 2048
RECURSIVE Encode(_)
Encode(t) ==
    IF t = <<>> THEN <<>>
    ELSE (IF Head(t) < 128 THEN <<Head(t)>>
          ELSE <<192 + (Head(t) \div 64), 128 + (Head(t) % 64)>>) \o Encode(Tail(t))

\* what the transcription service answers when the request fails
ServiceError == <<-3>>

\* Python truthiness of an Optional[str] / Optional[bytes]
Truthy(v) == v # None /\ v # <<>>

\* transcribe_audio testing the text as received, without strip()
TranscribeReturnNoStrip(resp) ==
    IF resp = ServiceError THEN None
    ELSE IF resp # <<>> THEN resp ELSE None

\* transcribe_audio's return value for a service answer
TranscribeReturn(resp) ==
    IF resp = ServiceError THEN None
    ELSE IF Strip(resp) # <<>> THEN Strip(resp) ELSE None

\* _handle_voice_input_sync's return value for get_voice_input's result
HandleReturn(text) == IF Truthy(text) THEN Encode(text) ELSE None

\* stdin_read returning the chunk as read when there is no voice text
StdinReadResultNoStrip(d, vt) ==
    IF HasTrigger(d) /\ Truthy(vt) THEN vt ELSE d

\* stdin_read's return value for the chunk read and the voice result
StdinReadResult(d, vt) ==
    IF HasTrigger(d)
    THEN (IF Truthy(vt) THEN vt ELSE Replace(d))
    ELSE d

\* the size test without its size half
TooShortMissingOnly(f) == f = Absent

\* the size test of get_voice_input: missing or too short
TooShort(f) == f = Absent \/ f < MinFileSize

\* the external recorder when it does not run
Stopped == [target |-> "none", open |-> FALSE, unstopped |-> FALSE]

\* the command run without -q: it starts a recording when none is active
cleanup_existing_recording_no_q(r) ==
    IF r.target = "none"
    THEN {[target |-> "old", open |-> FALSE, unstopped |-> FALSE]}
    ELSE {Stopped, [r EXCEPT !.unstopped = FALSE]}

\* termux-microphone-record -q run by cleanup_existing_recording: the possible
\* states of the recorder afterwards. The command is issued; when it fails or
\* times out the exception is swallowed and an active recorder keeps running
cleanup_existing_recording(r) == {Stopped, [r EXCEPT !.unstopped = FALSE]}

\* tempfile.mktemp: the path is new, so a recorder that survived a failed
\* stop writes to what is from now on an earlier session's file
NewPath(r) == IF r.target = "cur" THEN [r EXCEPT !.target = "old"] ELSE r

\* subprocess.Popen of the recorder on the new path; a recorder that survived
\* a failed stop keeps the microphone and its own file
Popen(r) ==
    IF r.target = "none" THEN [target |-> "cur", open |-> FALSE, unstopped |-> TRUE]
    ELSE [r EXCEPT !.unstopped = TRUE]

\* the recorder commands issued so far, as a window of the last two
Issue(log, c) == <<log[2], c>>

\* record_audio launching the recorder without stopping one first
record_audio_no_stop(r, log, popenOk) ==
    IF popenOk
    THEN {[rec |-> Popen(NewPath(r)), log |-> Issue(log, "start")]}
    ELSE {[rec |-> r2, log |-> Issue(Issue(log, "start"), "stop")] :
             r2 \in cleanup_existing_recording(NewPath(r))}

\* record_audio: force-stop, new path, Popen; when Popen raises, force-stop
\* again. The possible recorder states afterwards, with the commands issued
record_audio(r, log, popenOk) ==
    IF popenOk
    THEN {[rec |-> Popen(NewPath(r1)), log |-> Issue(Issue(log, "stop"), "start")] :
             r1 \in cleanup_existing_recording(r)}
    ELSE UNION {{[rec |-> r2, log |-> Issue(Issue(Issue(log, "stop"), "start"), "stop")] :
                    r2 \in cleanup_existing_recording(NewPath(r1))} :
                 r1 \in cleanup_existing_recording(r)}

\* wait_for_stop's `char` outside the loop
NoChar == <<-4>>

VARIABLES
    pc,          \* where the main thread is: start, select, wait, sleep,
                 \* transcribe, unwind, exited
    exit_cause,  \* why run() is being left: none, child, error, signal
    spawned,     \* pty.spawn has put the terminal in raw mode (restore = True)
    stdin_avail, \* pty._copy still reads the real terminal
    data,        \* the chunk stdin_read read last
    ret,         \* what stdin_read returned for it (NoRet while it runs)
    voice_text,  \* what _handle_voice_input_sync returned last
    outcome,     \* how the last Voice Session ended
    tty_mode,    \* mode of the real terminal
    old_tty,     \* mode saved by _handle_voice_input_sync
    recorder,    \* external capture: the file it writes (none: not running,
                 \* cur: temp_file of the last Voice Session, old: an earlier
                 \* one), whether it has opened it, and whether it was
                 \* launched and no force-stop has been issued since
    file,        \* temp_file of the last Voice Session: its size, or Absent
    leaked,      \* a temp file of an earlier Voice Session exists
    child_alive, \* the spawned remote session runs
    o_pending,   \* the child has written output not yet copied to the terminal
    cmds,        \* the last two commands issued to the recorder tool:
                 \* none, stop (-q), start (Popen)
    char,        \* the byte wait_for_stop read last (NoChar outside CAPTURING)
    tries,       \* of the Voice Session of the chunk read last: recorder
                 \* launches attempted and transcription requests made
    tts          \* the speak tool of the TTS server: its call and its result

io == <<stdin_avail, data, ret, voice_text, outcome>>
term == <<tty_mode, old_tty>>
fs == <<file, leaked>>
child == <<child_alive, o_pending>>
hist == <<cmds, char, tries>>
vars == <<pc, exit_cause, spawned, io, term, recorder, fs, child, hist, tts>>

NoTries == [starts |-> 0, calls |-> 0]
TtsIdle == [pc |-> "idle"]

Capturing == {"wait", "sleep", "transcribe"}

Init ==
    /\ pc = "start"
    /\ exit_cause = "none"
    /\ spawned = FALSE
    /\ stdin_avail = TRUE
    /\ data = <<>>
    /\ ret = NoRet
    /\ voice_text = None
    /\ outcome = "none"
    /\ tty_mode = "cooked"
    /\ old_tty = "cooked"
    /\ recorder = Stopped
    /\ file = Absent
    /\ leaked = FALSE
    /\ child_alive = FALSE
    /\ o_pending = FALSE
    /\ cmds = <<"none", "none">>
    /\ char = NoChar
    /\ tries = NoTries
    /\ tts = TtsIdle

\* run(): force-stop, build the command, pty.spawn (fork, setraw); a failure
\* to build or spawn is caught by run()'s except and leads to its finally
RunStart(spawnOk) ==
    /\ pc = "start"
    /\ recorder' \in cleanup_existing_recording(recorder)
    /\ IF spawnOk
       THEN /\ pc' = "select"
            /\ spawned' = TRUE
            /\ tty_mode' = "raw"
            /\ child_alive' = TRUE
            /\ UNCHANGED exit_cause
       ELSE /\ pc' = "unwind"
            /\ exit_cause' = "error"
            /\ UNCHANGED <<spawned, tty_mode, child_alive>>
    /\ cmds' = Issue(cmds, "stop")
    /\ UNCHANGED <<io, old_tty, fs, o_pending, char, tries, tts>>

\* the terminal mode restored on the success path only, not in a finally
FinishRestoreOnSuccess(d, text, label) ==
    /\ voice_text' = HandleReturn(text)
    /\ tty_mode' = IF Truthy(text) THEN old_tty' ELSE "cbreak"
    /\ ret' = StdinReadResult(d, HandleReturn(text))
    /\ stdin_avail' = (StdinReadResult(d, HandleReturn(text)) # <<>>)
    /\ outcome' = label
    /\ char' = NoChar
    /\ pc' = "select"

\* leaving CAPTURING with get_voice_input's result `text`: the rest of
\* _handle_voice_input_sync (encode, finally: tcsetattr), the rest of
\* stdin_read (replace, return) and pty._copy's test of the returned bytes
Finish(d, text, label) ==
    /\ voice_text' = HandleReturn(text)
    /\ tty_mode' = old_tty'
    /\ ret' = StdinReadResult(d, HandleReturn(text))
    /\ stdin_avail' = (StdinReadResult(d, HandleReturn(text)) # <<>>)
    /\ outcome' = label
    /\ char' = NoChar
    /\ pc' = "select"

\* stdin_read on a chunk without the trigger byte
StdinReadPlain(chunk) ==
    /\ pc = "select"
    /\ stdin_avail
    /\ ~HasTrigger(chunk)
    /\ data' = chunk
    /\ ret' = StdinReadResult(chunk, None)
    /\ stdin_avail' = (StdinReadResult(chunk, None) # <<>>)
    /\ tries' = NoTries
    /\ UNCHANGED <<pc, exit_cause, spawned, voice_text, outcome, term,
                   recorder, fs, child, cmds, char, tts>>

\* stdin_read on a chunk with the trigger byte, up to the blocking read of
\* wait_for_stop: tcgetattr, setcbreak, record_audio (force-stop, mktemp,
\* Popen); a Popen failure force-stops again and ends the attempt
StdinReadTrigger(chunk, popenOk) ==
    /\ pc = "select"
    /\ stdin_avail
    /\ HasTrigger(chunk)
    /\ data' = chunk
    /\ old_tty' = tty_mode
    /\ leaked' = (leaked \/ file # Absent)
    /\ file' = Absent
    /\ tries' = [starts |-> 1, calls |-> 0]
    /\ \E res \in record_audio(recorder, cmds, popenOk) :
         /\ recorder' = res.rec
         /\ cmds' = res.log
    /\ IF popenOk
       THEN /\ tty_mode' = "cbreak"
            /\ ret' = NoRet
            /\ pc' = "wait"
            /\ UNCHANGED <<stdin_avail, voice_text, outcome, char>>
       ELSE Finish(chunk, None, "start_failed")
    /\ UNCHANGED <<exit_cause, spawned, child, tts>>

\* get_voice_input going on to the size check without the force-stop
WaitReadNoStop(c) ==
    /\ pc = "wait"
    /\ char' = c
    /\ IF c = <<StopKey>>
       THEN pc' = "sleep"
       ELSE UNCHANGED pc
    /\ UNCHANGED <<exit_cause, spawned, io, term, recorder, fs, child, cmds,
                   tries, tts>>

\* wait_for_stop ending on a second Ctrl+Space as well as on Enter
WaitReadTriggerStops(c) ==
    /\ pc = "wait"
    /\ char' = c
    /\ IF c \in {<<StopKey>>, <<TriggerByte>>}
       THEN /\ recorder' \in cleanup_existing_recording(recorder)
            /\ cmds' = Issue(cmds, "stop")
            /\ pc' = "sleep"
       ELSE UNCHANGED <<pc, recorder, cmds>>
    /\ UNCHANGED <<exit_cause, spawned, io, term, fs, child, tries, tts>>

\* one os.read(stdin_fd, 1) of wait_for_stop: `c` is the byte read, or b''
\* at end of input; on the stop key the loop ends and get_voice_input issues
\* the force-stop and enters the grace delay; any other byte is dropped
WaitRead(c) ==
    /\ pc = "wait"
    /\ char' = c
    /\ IF c = <<StopKey>>
       THEN /\ recorder' \in cleanup_existing_recording(recorder)
            /\ cmds' = Issue(cmds, "stop")
            /\ pc' = "sleep"
       ELSE UNCHANGED <<pc, recorder, cmds>>
    /\ UNCHANGED <<exit_cause, spawned, io, term, fs, child, tries, tts>>

\* os.read in wait_for_stop raises (OSError): the exception leaves
\* get_voice_input at the stop_callback() call and is caught by the except
\* of _handle_voice_input_sync
WaitError ==
    /\ pc = "wait"
    /\ UNCHANGED <<data, old_tty>>
    /\ Finish(data, None, "wait_raised")
    /\ UNCHANGED <<exit_cause, spawned, recorder, fs, child, cmds, tries, tts>>

\* get_voice_input after the grace delay: the size check; a missing or short
\* file is removed and ends the attempt, otherwise transcribe_audio opens the
\* file and sends the request
SizeCheck ==
    /\ pc = "sleep"
    /\ IF TooShort(file)
       THEN /\ file' = Absent
            /\ UNCHANGED <<data, old_tty>>
            /\ Finish(data, None, IF file = Absent THEN "missing" ELSE "too_short")
            /\ UNCHANGED tries
       ELSE /\ pc' = "transcribe"
            /\ tries' = [tries EXCEPT !.calls = @ + 1]
            /\ UNCHANGED <<file, io, term, char>>
    /\ UNCHANGED <<exit_cause, spawned, recorder, leaked, child, cmds, tts>>

\* the unlink placed in the try body, skipped when the request raises
TranscribeFinallyOnAnswer(f, resp) == IF resp = ServiceError THEN f ELSE Absent

\* what transcribe_audio's finally leaves of the audio file
TranscribeFinally(f, resp) == Absent

\* transcribe_audio sending the request once more after a service error
TranscribeDoneRetry(resp) ==
    /\ pc = "transcribe"
    /\ IF resp = ServiceError /\ tries.calls < 2
       THEN /\ tries' = [tries EXCEPT !.calls = @ + 1]
            /\ UNCHANGED <<pc, file, io, term, char>>
       ELSE /\ file' = TranscribeFinally(file, resp)
            /\ UNCHANGED <<data, old_tty, tries>>
            /\ Finish(data, TranscribeReturn(resp),
                      IF resp = ServiceError THEN "service_error"
                      ELSE IF Strip(resp) = <<>> THEN "empty" ELSE "transcribed")
    /\ UNCHANGED <<exit_cause, spawned, recorder, leaked, child, cmds, tts>>

\* the transcription request ends with `resp`: the rest of transcribe_audio
\* (strip, finally: unlink) and the return to the relay
TranscribeDone(resp) ==
    /\ pc = "transcribe"
    /\ file' = TranscribeFinally(file, resp)
    /\ UNCHANGED <<data, old_tty>>
    /\ Finish(data, TranscribeReturn(resp),
              IF resp = ServiceError THEN "service_error"
              ELSE IF Strip(resp) = <<>> THEN "empty" ELSE "transcribed")
    /\ UNCHANGED <<exit_cause, spawned, recorder, leaked, child, cmds, tries, tts>>

\* the external recorder creates its file, or appends to it
RecorderWrite(size) ==
    /\ recorder.target # "none"
    /\ IF recorder.target = "cur"
       THEN /\ IF recorder.open THEN file # Absent /\ size > file ELSE TRUE
            /\ file' = size
            /\ UNCHANGED leaked
       ELSE /\ ~recorder.open
            /\ leaked' = TRUE
            /\ UNCHANGED file
    /\ recorder' = [recorder EXCEPT !.open = TRUE]
    /\ UNCHANGED <<pc, exit_cause, spawned, io, term, child, hist, tts>>

\* the remote session writes output to its terminal
ChildWrite ==
    /\ child_alive
    /\ pc \notin {"unwind", "exited"}
    /\ ~o_pending
    /\ o_pending' = TRUE
    /\ UNCHANGED <<pc, exit_cause, spawned, io, term, recorder, fs, child_alive,
                   hist, tts>>

\* the remote session ends
ChildExit ==
    /\ child_alive
    /\ pc \notin {"unwind", "exited"}
    /\ child_alive' = FALSE
    /\ UNCHANGED <<pc, exit_cause, spawned, io, term, recorder, fs, o_pending,
                   hist, tts>>

\* the copy done by a thread of its own, whatever the interceptor is doing
MasterReadConcurrent ==
    /\ pc \in {"select"} \cup Capturing
    /\ o_pending
    /\ o_pending' = FALSE
    /\ UNCHANGED <<pc, exit_cause, spawned, io, term, recorder, fs, child_alive,
                   hist, tts>>

\* pty._copy, master side: the relay thread, back at select, copies the
\* pending child output to the real terminal
MasterRead ==
    /\ pc = "select"
    /\ o_pending
    /\ o_pending' = FALSE
    /\ UNCHANGED <<pc, exit_cause, spawned, io, term, recorder, fs, child_alive,
                   hist, tts>>

\* pty._copy reads end of file from the child: the relay ends
RelayEnd ==
    /\ pc = "select"
    /\ ~child_alive
    /\ ~o_pending
    /\ pc' = "unwind"
    /\ exit_cause' = "child"
    /\ UNCHANGED <<spawned, io, term, recorder, fs, child, hist, tts>>

\* SIGINT or SIGTERM: _signal_handler runs cleanup() and raises SystemExit,
\* which unwinds through the finally blocks of transcribe_audio and
\* _handle_voice_input_sync when the thread is inside them
Signal ==
    /\ pc \in {"start", "select"} \cup Capturing
    /\ recorder' \in cleanup_existing_recording(recorder)
    /\ file' = IF pc = "transcribe" THEN Absent ELSE file
    /\ tty_mode' = IF pc \in Capturing THEN old_tty ELSE tty_mode
    /\ pc' = "unwind"
    /\ exit_cause' = "signal"
    /\ cmds' = Issue(cmds, "stop")
    /\ char' = NoChar
    /\ UNCHANGED <<spawned, io, old_tty, leaked, child, tries, tts>>

\* run() without the cleanup() of its finally
RunFinallyNoCleanup ==
    /\ pc = "unwind"
    /\ tty_mode' = IF spawned THEN "cooked" ELSE tty_mode
    /\ pc' = "exited"
    /\ UNCHANGED <<exit_cause, spawned, io, old_tty, recorder, fs, child, hist, tts>>

\* the finally blocks of pty.spawn (terminal mode restored) and of run()
\* (cleanup), then the process exits
RunFinally ==
    /\ pc = "unwind"
    /\ tty_mode' = IF spawned THEN "cooked" ELSE tty_mode
    /\ recorder' \in cleanup_existing_recording(recorder)
    /\ cmds' = Issue(cmds, "stop")
    /\ pc' = "exited"
    /\ UNCHANGED <<exit_cause, spawned, io, old_tty, fs, child, char, tries, tts>>

\* ------------------------------------------------- tts_mcp_server.speak
\* texts given to speak: runs of one letter, of every length up to the bound
SpeakTexts == {[i \in 1..n |-> 97] : n \in 0..MaxSpeakLen}

\* what subprocess.run of termux-tts-speak can do: end with a return code and
\* a stderr text, exceed the 30 s timeout, or fail otherwise (OSError, ...)
SpeakRuns ==
    {[kind |-> "exit", code |-> 0, err |-> ""],
     [kind |-> "exit", code |-> 1, err |-> ""],
     [kind |-> "exit", code |-> 1, err |-> "tts failed"],
     [kind |-> "timeout", code |-> 0, err |-> ""],
     [kind |-> "raise", code |-> 0, err |-> "No such file or directory"]}

\* the exception leaving speak
Raised == <<"raised">>

\* speak without its last handler, except Exception
SpeakResultNoCatchAll(text, run) ==
    IF run.kind = "exit"
    THEN (IF run.code = 0
          THEN <<"Successfully spoke: ",
                 SubSeq(text, 1, IF Len(text) < SpokenPrefixLen THEN Len(text)
                                 ELSE SpokenPrefixLen),
                 IF Len(text) > SpokenPrefixLen THEN "..." ELSE "">>
          ELSE <<"TTS error: ", run.err>>)
    ELSE IF run.kind = "timeout"
    THEN <<"TTS error: timeout (speech took too long)">>
    ELSE Raised

\* speak's return value: the f-strings as the sequence of their parts
SpeakResult(text, run) ==
    IF run.kind = "exit"
    THEN (IF run.code = 0
          THEN <<"Successfully spoke: ",
                 SubSeq(text, 1, IF Len(text) < SpokenPrefixLen THEN Len(text)
                                 ELSE SpokenPrefixLen),
                 IF Len(text) > SpokenPrefixLen THEN "..." ELSE "">>
          ELSE <<"TTS error: ", run.err>>)
    ELSE IF run.kind = "timeout"
    THEN <<"TTS error: timeout (speech took too long)">>
    ELSE <<"TTS error: ", run.err>>

\* one call of the speak tool
Speak(text, run) ==
    /\ tts' = [pc |-> "returned", text |-> text, run |-> run,
               result |-> SpeakResult(text, run)]
    /\ UNCHANGED <<pc, exit_cause, spawned, io, term, recorder, fs, child, hist>>

NextSpeak == \E text \in SpeakTexts, run \in SpeakRuns : Speak(text, run)

SpecSpeak == Init /\ [][NextSpeak]_vars

Next ==
    \/ \E spawnOk \in BOOLEAN : RunStart(spawnOk)
    \/ \E chunk \in Chunks : StdinReadPlain(chunk)
    \/ \E chunk \in Chunks, popenOk \in BOOLEAN : StdinReadTrigger(chunk, popenOk)
    \/ \E c \in SeqsUpTo(Byte, 1) : WaitRead(c)
    \/ WaitError
    \/ SizeCheck
    \/ \E resp \in Texts \cup {ServiceError} : TranscribeDone(resp)
    \/ \E size \in FileSizes : RecorderWrite(size)
    \/ ChildWrite
    \/ ChildExit
    \/ MasterRead
    \/ RelayEnd
    \/ Signal
    \/ RunFinally

Spec == Init /\ [][Next]_vars

TypeOK ==
    /\ pc \in {"start", "select", "wait", "sleep", "transcribe", "unwind", "exited"}
    /\ exit_cause \in {"none", "child", "error", "signal"}
    /\ tty_mode \in {"cooked", "raw", "cbreak"}
    /\ recorder.target \in {"none", "cur", "old"}
    /\ file \in {Absent} \cup FileSizes
    /\ ret = NoRet \/ \A i \in DOMAIN ret : ret[i] \in 0..255

\* ------------------------------------------------------------------ claims
\* vocabulary of the claims, stated on the bytes themselves
NoNul(d) == \A i \in DOMAIN d : d[i] # 0
NulCount(d) == Cardinality({i \in DOMAIN d : d[i] = 0})
IsOther(b) == b # 0
Others(d) == SelectSeq(d, IsOther)
NulPos(d) == CHOOSE i \in DOMAIN d : d[i] = 0
BeforeNul(d) == SubSeq(d, 1, NulPos(d) - 1)
AfterNul(d) == SubSeq(d, NulPos(d) + 1, Len(d))

RECURSIVE IsSubseq(_, _)
IsSubseq(a, b) ==
    IF a = <<>> THEN TRUE
    ELSE IF b = <<>> THEN FALSE
    ELSE IF Head(a) = Head(b) THEN IsSubseq(Tail(a), Tail(b))
    ELSE IsSubseq(a, Tail(b))

\* stdin_read has returned for the chunk in `data`
Returned == pc = "select" /\ ret # NoRet
\* ... and that chunk carried the trigger byte, so a Voice Session ran for it
ReturnedFromVoice == Returned /\ ~NoNul(data)

\* C1: a chunk without the trigger byte is returned exactly as read, starts
\* no Voice Session (recorder, recording files and terminal mode untouched)
\* and leaves the interceptor in PASSTHROUGH
C1_PlainChunkIdentity ==
    [][(pc = "select" /\ <<data, ret>>' # <<data, ret>> /\ NoNul(data'))
         => /\ ret' = data'
            /\ pc' = "select"
            /\ UNCHANGED <<recorder, fs, term, voice_text, outcome>>]_vars

C1_Witness == Returned /\ NoNul(data) /\ Len(data) > 1 /\ ret = data

\* C2: for a chunk prefix + trigger + suffix whose Voice Session produced a
\* transcript, the forwarded bytes are prefix + transcript + suffix
C2_TranscriptInserted ==
    (ReturnedFromVoice /\ NulCount(data) = 1 /\ outcome = "transcribed")
        => ret = BeforeNul(data) \o voice_text \o AfterNul(data)

\* C3: for a chunk with exactly one trigger byte, whatever the outcome, the
\* output has no trigger byte and contains the other bytes in their order
C3_TriggerStrippedOrderKept ==
    (ReturnedFromVoice /\ NulCount(data) = 1)
        => NoNul(ret) /\ IsSubseq(Others(data), ret)

\* C4: after a voice attempt without transcript the relay still reads the
\* real terminal, also when the chunk was only the trigger byte
C4_RelayKeepsReading ==
    (ReturnedFromVoice /\ voice_text = None) => stdin_avail

\* C5: whenever CAPTURING is left (transcript, no transcript, exception,
\* signal), and after every interception that returned to PASSTHROUGH, the
\* terminal mode is the one saved on entry
C5_TerminalRestored ==
    [][((pc \in Capturing /\ pc' \notin Capturing)
          \/ (pc = "select" /\ pc' = "select" /\ ~NoNul(data')))
         => tty_mode' = old_tty']_vars

C5_Witness == Returned /\ outcome = "wait_raised" /\ tty_mode = "raw"

\* C6: once get_voice_input has returned or been left by an exception, the
\* force-stop has been issued for its capture and its file is gone
C6_NoRecordingOutlivesSession ==
    ReturnedFromVoice => ~recorder.unstopped /\ file = Absent

\* C7: a process that exits on a signal has force-stopped the capture and
\* removed the recording file
C7_SignalReleasesRecording ==
    (pc = "exited" /\ exit_cause = "signal")
        => ~recorder.unstopped /\ file = Absent

\* C8: during CAPTURING pending child output can still be copied to the real
\* terminal
C8_OutputCopiedDuringCapture ==
    (pc \in Capturing /\ o_pending) => ENABLED MasterRead

\* C8 as the code has it: child output is copied only in PASSTHROUGH; what the
\* child writes during a capture stays pending until the interceptor returns
C8_OutputHeldDuringCapture ==
    [][(o_pending /\ ~o_pending') => (pc = "select" /\ pc' = "select")]_vars

C8_Witness == pc \in Capturing /\ o_pending

\* C9: transcribe_audio leaves no audio file behind, whatever the service
\* answered (text, empty text, error)
C9_TranscribeDeletesFile ==
    [][(pc = "transcribe" /\ pc' # "transcribe") => file' = Absent]_vars

C9_Witness == Returned /\ outcome = "service_error" /\ file = Absent

\* C10: a recording that is missing or below 1000 bytes at the size check
\* ends the Voice Session with None, is removed, and is never transcribed
C10_ShortRecordingNotTranscribed ==
    [][(pc = "sleep" /\ pc' \notin {"sleep", "unwind"}
          /\ (file = Absent \/ file < 1000))
         => /\ pc' = "select"
            /\ voice_text' = None
            /\ ret' = Others(data)
            /\ file' = Absent]_vars

C10_Witness == Returned /\ outcome = "too_short" /\ file = Absent

\* C11: when the recorder cannot be launched the attempt ends at once: the
\* interceptor is back in PASSTHROUGH without a wait and without a
\* transcription request, no recording exists, and the chunk is forwarded
\* with only its trigger bytes removed
C11_StartFailureForwardsStripped ==
    [][(pc = "select" /\ pc' = "select" /\ <<data, ret>>' # <<data, ret>>
          /\ ~NoNul(data'))
         => /\ ret' = Others(data')
            /\ voice_text' = None
            /\ tries'.calls = 0
            /\ file' = Absent
            /\ ~recorder'.unstopped]_vars

C11_Witness ==
    /\ Returned /\ outcome = "start_failed"
    /\ NulCount(data) = 1 /\ data[1] = 0 /\ Len(data) = 3 /\ ret = Tail(data)

C13_StopIdempotentTotal ==
    [][((pc = "unwind" /\ pc' = "exited") \/ (pc = "start" /\ pc' # "start"))
         => /\ recorder.target = "none" => recorder' = recorder
            /\ recorder' \in {Stopped, [recorder EXCEPT !.unstopped = FALSE]}
            /\ UNCHANGED <<file, leaked, io, old_tty, tries>>]_vars

C13_Witness ==
    pc = "exited" /\ exit_cause = "signal" /\ recorder.target = "cur"

\* C14: what transcribe_audio hands back is either nothing, and then nothing
\* is injected, or a text that is non-empty after trimming, and then exactly
\* that text is injected
C14_BlankTranscriptIsNone ==
    [][(pc = "transcribe" /\ pc' = "select")
         => IF voice_text' = None
            THEN ret' = Others(data)
            ELSE /\ voice_text' # <<>>
                 /\ voice_text'[1] # 32
                 /\ voice_text'[Len(voice_text')] # 32
                 /\ ret' = voice_text']_vars

C14_Witness ==
    Returned /\ outcome = "empty" /\ voice_text = None /\ tries.calls = 1
        /\ ret = Others(data) /\ ret # <<>>

\* C16: the steps of a Voice Session come in order: launch, then the wait,
\* then the force-stop on the stop key, then the size check, then the
\* transcription request, which is made only after the force-stop and a
\* passed size check; a passed size check is always followed by the request
C16_StepsInOrder ==
    [][/\ (pc' = "wait" /\ pc # "wait")
            => pc = "select" /\ cmds' = <<"stop", "start">>
       /\ (pc' = "sleep" /\ pc # "sleep")
            => pc = "wait" /\ char' = <<13>> /\ cmds' = <<"start", "stop">>
       /\ (pc' = "transcribe" /\ pc # "transcribe")
            => pc = "sleep" /\ file # Absent /\ file >= 1000
               /\ cmds = <<"start", "stop">> /\ ~recorder.unstopped
       /\ (pc = "sleep" /\ pc' = "select")
            => file = Absent \/ file < 1000]_vars

C16_Witness == pc = "transcribe" /\ file = 1000 /\ ~recorder.unstopped

C19_OneAttemptNoRetry ==
    [][/\ tries'.starts <= 1 /\ tries'.calls <= 1
       /\ ~NoNul(data') => tries'.starts = 1
       /\ (pc' = "wait" /\ pc # "wait") => pc = "select"
       /\ tries'.calls > tries.calls => pc = "sleep"]_vars

C19_Witness ==
    Returned /\ NulCount(data) = 2 /\ outcome = "service_error"
        /\ tries = [starts |-> 1, calls |-> 1]

\* C20: run() issues a force-stop before the relay starts, and its last
\* recorder command before the process exits is a force-stop of its own,
\* whatever ended the relay
C20_StopAroundRelay ==
    [][/\ (pc = "start" /\ pc' = "select") => cmds' = <<"none", "stop">>
       /\ (pc' = "exited" /\ pc # "exited") => cmds' = <<cmds[2], "stop">>]_vars

C20_Witness ==
    pc = "exited" /\ exit_cause = "child" /\ outcome = "wait_raised"
        /\ cmds = <<"start", "stop">>

\* C15: speak always returns a status text: the success message exactly when
\* the command ended with code 0, the timeout message when it ran over its
\* time limit, and an error message carrying the description (stderr or the
\* exception text) in every other case
C15_SpeakReturnsStatus ==
    tts.pc = "returned" =>
        /\ tts.result # <<"raised">>
        /\ (tts.result[1] = "Successfully spoke: ")
              <=> (tts.run.kind = "exit" /\ tts.run.code = 0)
        /\ tts.run.kind = "timeout"
              => tts.result = <<"TTS error: timeout (speech took too long)">>
        /\ (tts.run.kind = "raise" \/ (tts.run.kind = "exit" /\ tts.run.code # 0))
              => tts.result = <<"TTS error: ", tts.run.err>>

C15_Witness ==
    /\ tts.pc = "returned" /\ tts.run.kind = "raise"
    /\ tts.result = <<"TTS error: ", "No such file or directory">>
    /\ Len(tts.text) = 51

\* C18: whatever can end the wait does end it: reading the stop key, a
\* signal, and reading end of input each take the interceptor out of the wait
C18_WaitEnds ==
    [][(pc = "wait"
          /\ ((char' # char /\ char' \in {<<13>>, <<>>}) \/ exit_cause' = "signal"))
         => pc' # "wait"]_vars

====
